---- MODULE Spec2Model ----
(***************************************************************************)
(* Model of records/fillers/filler.py: AnnotatedFiller, its bind-time      *)
(* configuration (bind / apply / get_coercer / get_validator) and the      *)
(* staged generator fill, driven one resumption at a time.                 *)
(***************************************************************************)
EXTENDS Integers, Sequences, FiniteSets, TLC

VARIABLES type_checking_style, origin, args, coercers, validators,
          nbinds, bindOutcome, run, run2

vars == <<type_checking_style, origin, args, coercers, validators,
          nbinds, bindOutcome, run, run2>>

fillerVars == <<type_checking_style, origin, args, coercers, validators>>

----------------------------------------------------------------------------
(* Bounds *)

\* longest token list (self.args) a filler is constructed with
MaxArgs == 3
\* number of times bind is called on the filler
MaxBinds == 2

----------------------------------------------------------------------------
(* TypeCheckStyle and FillingIntent *)

TypeCheckStyle == {"default", "hollow", "check", "check_strict"}

FillingIntent ==
    {"attempt_no_coerce", "attempt_coerce", "attempt_hollow", "attempt_validation"}

----------------------------------------------------------------------------
(* Values, their runtime types, and the two type-membership predicates *)

Types == {"Base", "Derived", "Other"}

\* Derived is a strict subclass of Base; Other is unrelated to both.
IsSubclass(t, u) == t = u \/ (t = "Derived" /\ u = "Base")

Values == {"b1", "b2", "d1", "o1", "o2", "o3"}

TypeOf(v) ==
    CASE v \in {"b1", "b2"} -> "Base"
      [] v = "d1"           -> "Derived"
      [] OTHER              -> "Other"

\* declared types a filler is constructed for
Origins == {"Base", "Derived"}

\* type(v) is origin
type_check_strict(o, v) == TypeOf(v) = o

\* isinstance(v, origin)
type_check(o, v) == IsSubclass(TypeOf(v), o)

----------------------------------------------------------------------------
(* Configuration tokens *)

CoercionToken == {"c1", "c2", "cBad"}
ValidationToken == {"v1", "v2", "vBad"}
PlainToken == {"doc"}

Tokens == TypeCheckStyle \cup CoercionToken \cup ValidationToken \cup PlainToken

\* callable(token)
Callable(token) == token \in {"c1", "c2", "v1", "v2"}

----------------------------------------------------------------------------
(* What the user-supplied callables do when invoked.  A call either        *)
(* returns a value or raises; "TypeError" is the type-conversion failure.  *)

Ret(v) == [kind |-> "return", val |-> v]
Raise(cls) == [kind |-> cls, val |-> "none"]

CallCoercer(c, v) ==
    IF c = "c1"
    THEN CASE v = "o1" -> Ret("b1")
           [] v = "o2" -> Raise("TypeError")
           [] v = "o3" -> Raise("ValueError")
           [] v = "d1" -> Raise("TypeError")
           [] v = "b1" -> Ret("d1")
           [] OTHER    -> Raise("TypeError")
    ELSE CASE v = "o1" -> Ret("o2")
           [] v = "o2" -> Raise("TypeError")
           [] v = "o3" -> Ret("b2")
           [] v = "d1" -> Ret("b1")
           [] v = "b1" -> Raise("TypeError")
           [] OTHER    -> Raise("ValueError")

CallValidator(f, v) ==
    IF f = "v1"
    THEN CASE v = "b1" -> Ret("b2")
           [] v = "o1" -> Ret("b1")
           [] v = "o2" -> Raise("ValueError")
           [] OTHER    -> Ret(v)
    ELSE CASE v = "b2" -> Ret("d1")
           [] v = "d1" -> Raise("ValueError")
           [] v = "o3" -> Raise("ValueError")
           [] OTHER    -> Ret(v)

----------------------------------------------------------------------------
(* Errors: the exception class, the statement that raised it, and the      *)
(* token / position of the callable it came from.                          *)

NoError == [cls |-> "none", src |-> "none", tok |-> "none", idx |-> 0]
Error(cls, src, tok, idx) == [cls |-> cls, src |-> src, tok |-> tok, idx |-> idx]

----------------------------------------------------------------------------
(* bind / apply / get_coercer / get_validator *)

\* get_coercer: the token itself when callable, else raise TypeError(token)
get_coercer(token) ==
    IF Callable(token)
    THEN [ok |-> TRUE, fn |-> token, err |-> NoError]
    ELSE [ok |-> FALSE, fn |-> token, err |-> Error("TypeError", "get_coercer", token, 0)]

\* get_validator returning the token without asking whether it is callable
get_validator_NoCheck(token) == [ok |-> TRUE, fn |-> token, err |-> NoError]

\* get_validator: the token itself when callable, else raise TypeError(token)
get_validator(token) ==
    IF Callable(token)
    THEN [ok |-> TRUE, fn |-> token, err |-> NoError]
    ELSE [ok |-> FALSE, fn |-> token, err |-> Error("TypeError", "get_validator", token, 0)]

\* apply keeping the first style token: a later one does not overwrite it
apply_FirstStyleWins(f, token) ==
    IF token \in TypeCheckStyle
    THEN IF f.style = "default" THEN [f EXCEPT !.style = token] ELSE f
    ELSE IF token \in CoercionToken
    THEN LET r == get_coercer(token)
         IN  IF r.ok THEN [f EXCEPT !.coercers = Append(@, r.fn)]
                     ELSE [f EXCEPT !.err = r.err]
    ELSE IF token \in ValidationToken
    THEN LET r == get_validator(token)
         IN  IF r.ok THEN [f EXCEPT !.validators = Append(@, r.fn)]
                     ELSE [f EXCEPT !.err = r.err]
    ELSE f

\* apply inserting at the front of the lists instead of appending
apply_Prepend(f, token) ==
    IF token \in TypeCheckStyle
    THEN [f EXCEPT !.style = token]
    ELSE IF token \in CoercionToken
    THEN LET r == get_coercer(token)
         IN  IF r.ok THEN [f EXCEPT !.coercers = <<r.fn>> \o @]
                     ELSE [f EXCEPT !.err = r.err]
    ELSE IF token \in ValidationToken
    THEN LET r == get_validator(token)
         IN  IF r.ok THEN [f EXCEPT !.validators = <<r.fn>> \o @]
                     ELSE [f EXCEPT !.err = r.err]
    ELSE f

\* apply(token) on the filler fields f = [style, coercers, validators, err]
apply(f, token) ==
    IF token \in TypeCheckStyle
    THEN [f EXCEPT !.style = token]
    ELSE IF token \in CoercionToken
    THEN LET r == get_coercer(token)
         IN  IF r.ok THEN [f EXCEPT !.coercers = Append(@, r.fn)]
                     ELSE [f EXCEPT !.err = r.err]
    ELSE IF token \in ValidationToken
    THEN LET r == get_validator(token)
         IN  IF r.ok THEN [f EXCEPT !.validators = Append(@, r.fn)]
                     ELSE [f EXCEPT !.err = r.err]
    ELSE f

\* for arg in self.args: self.apply(arg)  -- stops at the first raise
RECURSIVE applyAll(_, _, _)
applyAll(f, toks, i) ==
    IF i > Len(toks) \/ f.err # NoError
    THEN f
    ELSE applyAll(apply(f, toks[i]), toks, i + 1)

\* bindPostCheck without the hollow-with-coercers check
bindPostCheck_NoHollowCheck(f) ==
    IF f.style = "default"
    THEN Error("NotImplementedError", "bind", "none", 0)
    ELSE NoError

\* the two checks bind makes once every token is applied
bindPostCheck(f) ==
    IF f.style = "default"
    THEN Error("NotImplementedError", "bind", "none", 0)
    ELSE IF f.style = "hollow" /\ f.coercers # <<>>
    THEN Error("ValueError", "bind", "none", 0)
    ELSE NoError

\* bind emptying the two lists before it applies the tokens
bindResult_FromScratch(f0, toks) ==
    LET f == applyAll([f0 EXCEPT !.coercers = <<>>, !.validators = <<>>], toks, 1)
    IN  IF f.err # NoError THEN f ELSE [f EXCEPT !.err = bindPostCheck(f)]

\* bind(owner_cls) as a function of the fields before the call
bindResult(f0, toks) ==
    LET f == applyAll(f0, toks, 1)
    IN  IF f.err # NoError THEN f ELSE [f EXCEPT !.err = bindPostCheck(f)]

bind ==
    /\ nbinds < MaxBinds
    /\ LET f == bindResult([style |-> type_checking_style, coercers |-> coercers,
                            validators |-> validators, err |-> NoError], args)
       IN  /\ type_checking_style' = f.style
           /\ coercers' = f.coercers
           /\ validators' = f.validators
           /\ bindOutcome' = [status |-> IF f.err = NoError THEN "ok" ELSE "raised",
                              error |-> f.err]
    /\ nbinds' = nbinds + 1
    /\ UNCHANGED <<origin, args, run, run2>>

----------------------------------------------------------------------------
(* fill: the generator.  pc is where the generator object stands:          *)
(*   "none"       fill has not been called                                 *)
(*   "Start"      generator created, not yet resumed                       *)
(*   "AtHollow" / "AtNoCoerce" / "AtCoerce" / "AtValidation"               *)
(*                suspended at the yield of that intent                    *)
(*   "Done"       returned (result holds the value)                        *)
(*   "Failed"     raised (error holds the exception)                       *)
(*   "Closed"     abandoned by the driver while suspended                  *)
(* run is the generator of one call of fill; run2 is the generator of a    *)
(* second call on the same filler, driven only in SpecTwo.                 *)

NoRun ==
    [pc |-> "none", input |-> "none", arg |-> "none", intents |-> <<>>,
     tchecks |-> <<>>, ccalls |-> <<>>, vcalls |-> <<>>,
     result |-> "none", error |-> NoError]

\* fill(arg): calling a generator function runs none of its body
fill(x) ==
    /\ run.pc = "none"
    /\ run' = [run EXCEPT !.pc = "Start", !.input = x, !.arg = x]
    /\ UNCHANGED <<fillerVars, nbinds, bindOutcome, run2>>

Yield(r, pc, intent) == [r EXCEPT !.pc = pc, !.intents = Append(@, intent)]
Fail(r, err) == [r EXCEPT !.pc = "Failed", !.error = err]

\* fillStart with the hollow branch lost: hollow is type-checked like check
fillStart_NoHollow(r, style) ==
    IF style = "default"
    THEN Fail(r, Error("NotImplementedError", "fill", "none", 0))
    ELSE Yield(r, "AtNoCoerce", "attempt_no_coerce")

\* fillStart with the guard on the unconfigured style lost
fillStart_NoDefaultGuard(r, style) ==
    IF style = "hollow"
    THEN Yield(r, "AtHollow", "attempt_hollow")
    ELSE Yield(r, "AtNoCoerce", "attempt_no_coerce")

\* lines 78-84: first resumption
fillStart(r, style) ==
    IF style = "default"
    THEN Fail(r, Error("NotImplementedError", "fill", "none", 0))
    ELSE IF style = "hollow"
    THEN Yield(r, "AtHollow", "attempt_hollow")
    ELSE Yield(r, "AtNoCoerce", "attempt_no_coerce")

\* the hollow branch falling through into the type-checking branch
fillHollow_FallThrough(r) == Yield(r, "AtNoCoerce", "attempt_no_coerce")

\* the hollow branch sent through the coercion stage
fillHollow_ThroughCoercion(r) == Yield(r, "AtCoerce", "attempt_coerce")

\* lines 81-82 and 105: resumed after attempt_hollow, straight to validation
fillHollow(r) == Yield(r, "AtValidation", "attempt_validation")

\* selectCheck with the two branches swapped
selectCheck_Swapped(style) ==
    IF style = "check_strict" THEN "type_check" ELSE "type_check_strict"

\* lines 85-88: which predicate the style selects
selectCheck(style) == IF style = "check_strict" THEN "type_check_strict" ELSE "type_check"

runCheck(pred, o, v) ==
    IF pred = "type_check_strict" THEN type_check_strict(o, v) ELSE type_check(o, v)

\* lines 85-92 (and 105 when the check passes): resumed after attempt_no_coerce
fillCheck(r, style, o) ==
    LET pred == selectCheck(style)
        is_type == runCheck(pred, o, r.arg)
        r1 == [r EXCEPT !.tchecks = Append(@, [pred |-> pred, val |-> r.arg, res |-> is_type])]
    IN  IF ~is_type
        THEN Yield(r1, "AtCoerce", "attempt_coerce")
        ELSE Yield(r1, "AtValidation", "attempt_validation")

\* coerceScan re-raising the first type-conversion failure instead of the last
RECURSIVE coerceScan_RaiseFirst(_, _, _)
coerceScan_RaiseFirst(cs, i, s) ==
    IF i > Len(cs)
    THEN s
    ELSE LET out == CallCoercer(cs[i], s.arg)
             s1 == [s EXCEPT !.calls = Append(@, [idx |-> i, tok |-> cs[i], inp |-> s.arg])]
         IN  IF out.kind = "return"
             THEN [s1 EXCEPT !.arg = out.val, !.ok = TRUE]
             ELSE [s1 EXCEPT !.err = Error(out.kind, "coercer", cs[i], i)]

\* coerceScan skipping every exception of a coercer, not only TypeError
RECURSIVE coerceScan_CatchAll(_, _, _)
coerceScan_CatchAll(cs, i, s) ==
    IF i > Len(cs)
    THEN s
    ELSE LET out == CallCoercer(cs[i], s.arg)
             s1 == [s EXCEPT !.calls = Append(@, [idx |-> i, tok |-> cs[i], inp |-> s.arg])]
         IN  IF out.kind = "return"
             THEN [s1 EXCEPT !.arg = out.val, !.ok = TRUE]
             ELSE IF i = Len(cs)
             THEN [s1 EXCEPT !.err = Error(out.kind, "coercer", cs[i], i)]
             ELSE coerceScan_CatchAll(cs, i + 1, s1)

\* lines 95-102: the coercer scan from position i; s = [arg, calls, err, ok]
RECURSIVE coerceScan(_, _, _)
coerceScan(cs, i, s) ==
    IF i > Len(cs)
    THEN s
    ELSE LET out == CallCoercer(cs[i], s.arg)
             s1 == [s EXCEPT !.calls = Append(@, [idx |-> i, tok |-> cs[i], inp |-> s.arg])]
         IN  IF out.kind = "return"
             THEN [s1 EXCEPT !.arg = out.val, !.ok = TRUE]
             ELSE IF out.kind = "TypeError"
             THEN IF i = Len(cs)
                  THEN [s1 EXCEPT !.err = Error("TypeError", "coercer", cs[i], i)]
                  ELSE coerceScan(cs, i + 1, s1)
             ELSE [s1 EXCEPT !.err = Error(out.kind, "coercer", cs[i], i)]

\* fillCoerce without the check for an empty coercer list
fillCoerce_NoEmptyCheck(r, cs) ==
    LET s == coerceScan(cs, 1, [arg |-> r.arg, calls |-> <<>>, err |-> NoError, ok |-> FALSE])
        r1 == [r EXCEPT !.ccalls = s.calls, !.arg = s.arg]
    IN  IF s.err # NoError
        THEN Fail(r1, s.err)
        ELSE Yield(r1, "AtValidation", "attempt_validation")

\* fillCoerce yielding attempt_coerce again, to retry, when the scan fails
fillCoerce_RetryAfterFailure(r, cs) ==
    IF cs = <<>>
    THEN Fail(r, Error("TypeError", "fill", "none", 0))
    ELSE LET s == coerceScan(cs, 1, [arg |-> r.arg, calls |-> <<>>, err |-> NoError, ok |-> FALSE])
             r1 == [r EXCEPT !.ccalls = @ \o s.calls, !.arg = s.arg]
         IN  IF s.err # NoError
             THEN Yield(r1, "AtCoerce", "attempt_coerce")
             ELSE Yield(r1, "AtValidation", "attempt_validation")

\* lines 93-105: resumed after attempt_coerce
fillCoerce(r, cs) ==
    IF cs = <<>>
    THEN Fail(r, Error("TypeError", "fill", "none", 0))
    ELSE LET s == coerceScan(cs, 1, [arg |-> r.arg, calls |-> <<>>, err |-> NoError, ok |-> FALSE])
             r1 == [r EXCEPT !.ccalls = s.calls, !.arg = s.arg]
         IN  IF s.err # NoError
             THEN Fail(r1, s.err)
             ELSE Yield(r1, "AtValidation", "attempt_validation")

\* validateAll calling each validator and dropping what it returns
RECURSIVE validateAll_NoChain(_, _, _)
validateAll_NoChain(vs, i, s) ==
    IF i > Len(vs)
    THEN s
    ELSE LET out == CallValidator(vs[i], s.arg)
             s1 == [s EXCEPT !.calls = Append(@, [idx |-> i, tok |-> vs[i], inp |-> s.arg])]
         IN  IF out.kind = "return"
             THEN validateAll_NoChain(vs, i + 1, s1)
             ELSE [s1 EXCEPT !.err = Error(out.kind, "validator", vs[i], i)]

\* lines 106-107: the validator chain from position i; s = [arg, calls, err]
RECURSIVE validateAll(_, _, _)
validateAll(vs, i, s) ==
    IF i > Len(vs)
    THEN s
    ELSE LET out == CallValidator(vs[i], s.arg)
             s1 == [s EXCEPT !.calls = Append(@, [idx |-> i, tok |-> vs[i], inp |-> s.arg])]
         IN  IF out.kind = "return"
             THEN validateAll(vs, i + 1, [s1 EXCEPT !.arg = out.val])
             ELSE [s1 EXCEPT !.err = Error(out.kind, "validator", vs[i], i)]

\* lines 106-109: resumed after attempt_validation
fillValidate(r, vs) ==
    LET s == validateAll(vs, 1, [arg |-> r.arg, calls |-> <<>>, err |-> NoError])
        r1 == [r EXCEPT !.vcalls = s.calls, !.arg = s.arg]
    IN  IF s.err # NoError
        THEN Fail(r1, s.err)
        ELSE [r1 EXCEPT !.pc = "Done", !.result = s.arg]

\* one resumption (next()) of the generator, by where it is suspended
resumeStart ==
    /\ run.pc = "Start"
    /\ run' = fillStart(run, type_checking_style)
    /\ UNCHANGED <<fillerVars, nbinds, bindOutcome, run2>>

resumeHollow ==
    /\ run.pc = "AtHollow"
    /\ run' = fillHollow(run)
    /\ UNCHANGED <<fillerVars, nbinds, bindOutcome, run2>>

\* resumeNoCoerce with the coercers run before attempt_coerce is yielded
resumeNoCoerce_EagerCoercion ==
    /\ run.pc = "AtNoCoerce"
    /\ run' = LET r == fillCheck(run, type_checking_style, origin)
                  s == coerceScan(coercers, 1, [arg |-> r.arg, calls |-> <<>>,
                                                err |-> NoError, ok |-> FALSE])
              IN  IF r.pc = "AtCoerce"
                  THEN [r EXCEPT !.ccalls = s.calls, !.arg = s.arg]
                  ELSE r
    /\ UNCHANGED <<fillerVars, nbinds, bindOutcome, run2>>

resumeNoCoerce ==
    /\ run.pc = "AtNoCoerce"
    /\ run' = fillCheck(run, type_checking_style, origin)
    /\ UNCHANGED <<fillerVars, nbinds, bindOutcome, run2>>

\* resumeCoerce consuming the coercers it has tried (pop instead of iterate)
resumeCoerce_Consuming ==
    /\ run.pc = "AtCoerce"
    /\ run' = fillCoerce(run, coercers)
    /\ coercers' = SubSeq(coercers, Len(run'.ccalls) + 1, Len(coercers))
    /\ UNCHANGED <<type_checking_style, origin, args, validators,
                   nbinds, bindOutcome, run2>>

resumeCoerce ==
    /\ run.pc = "AtCoerce"
    /\ run' = fillCoerce(run, coercers)
    /\ UNCHANGED <<fillerVars, nbinds, bindOutcome, run2>>

resumeValidation ==
    /\ run.pc = "AtValidation"
    /\ run' = fillValidate(run, validators)
    /\ UNCHANGED <<fillerVars, nbinds, bindOutcome, run2>>

----------------------------------------------------------------------------
(* Specification *)

ArgLists == UNION {[1..n -> Tokens] : n \in 0..MaxArgs}

\* __init__(origin, args)
Init ==
    /\ type_checking_style = "default"
    /\ origin \in Origins
    /\ args \in ArgLists
    /\ coercers = <<>>
    /\ validators = <<>>
    /\ nbinds = 0
    /\ bindOutcome = [status |-> "none", error |-> NoError]
    /\ run = NoRun
    /\ run2 = NoRun

Next ==
    \/ bind
    \/ \E x \in Values : fill(x)
    \/ resumeStart
    \/ resumeHollow
    \/ resumeNoCoerce
    \/ resumeCoerce
    \/ resumeValidation

Spec == Init /\ [][Next]_vars

----------------------------------------------------------------------------
(* Two calls of fill on the same filler, driven in any interleaving, each  *)
(* of which the driver may abandon at any point where it is suspended.     *)

Suspended == {"Start", "AtHollow", "AtNoCoerce", "AtCoerce", "AtValidation"}

\* next() on the generator r, by where it is suspended
resumed(r) ==
    CASE r.pc = "Start"        -> fillStart(r, type_checking_style)
      [] r.pc = "AtHollow"     -> fillHollow(r)
      [] r.pc = "AtNoCoerce"   -> fillCheck(r, type_checking_style, origin)
      [] r.pc = "AtCoerce"     -> fillCoerce(r, coercers)
      [] r.pc = "AtValidation" -> fillValidate(r, validators)

\* the driver drops the generator: no statement of fill runs any more
abandoned(r) == [r EXCEPT !.pc = "Closed"]

closeRun ==
    /\ run.pc \in Suspended
    /\ run' = abandoned(run)
    /\ UNCHANGED <<fillerVars, nbinds, bindOutcome, run2>>

fillOther(x) ==
    /\ run2.pc = "none"
    /\ run2' = [run2 EXCEPT !.pc = "Start", !.input = x, !.arg = x]
    /\ UNCHANGED <<fillerVars, nbinds, bindOutcome, run>>

resumeOther ==
    /\ run2.pc \in Suspended
    /\ run2' = resumed(run2)
    /\ UNCHANGED <<fillerVars, nbinds, bindOutcome, run>>

closeOther ==
    /\ run2.pc \in Suspended
    /\ run2' = abandoned(run2)
    /\ UNCHANGED <<fillerVars, nbinds, bindOutcome, run>>

\* inputs of the two calls: one that passes the check of Base, one that a
\* coercer converts, one on which a coercer raises ValueError
TwoValues == {"b1", "o1", "o3"}

\* one declared type and token lists one shorter than MaxArgs keep the
\* product of the two runs in reach
InitTwo == Init /\ Len(args) < MaxArgs /\ origin = "Base"

NextTwo ==
    \/ bind
    \/ \E x \in TwoValues : fill(x)
    \/ resumeStart
    \/ resumeHollow
    \/ resumeNoCoerce
    \/ resumeCoerce
    \/ resumeValidation
    \/ closeRun
    \/ \E x \in TwoValues : fillOther(x)
    \/ resumeOther
    \/ closeOther

SpecTwo == InitTwo /\ [][NextTwo]_vars

----------------------------------------------------------------------------
(* A driver that keeps resuming the run: every resumption that stays       *)
(* enabled is eventually taken.                                            *)

Resume ==
    \/ resumeStart
    \/ resumeHollow
    \/ resumeNoCoerce
    \/ resumeCoerce
    \/ resumeValidation

\* the tokens that reach the filler: the styles a user declares and the
\* callables; a token that is rejected or skipped adds no coercer or validator.
\* Token lists one shorter than MaxArgs keep the fair runs in reach.
LiveTokens == {"hollow", "check", "check_strict", "c1", "c2", "v1", "v2"}

InitLive ==
    /\ Init
    /\ Len(args) < MaxArgs
    /\ \A i \in 1..Len(args) : args[i] \in LiveTokens

LiveSpec == InitLive /\ [][Next]_vars /\ WF_vars(Resume)

----------------------------------------------------------------------------
(* Properties of one fill run and of bind *)

Last(q) == q[Len(q)]

IsPrefix(p, q) == Len(p) <= Len(q) /\ \A i \in 1..Len(p) : p[i] = q[i]

CheckedOrders ==
    { <<"attempt_no_coerce", "attempt_validation">>,
      <<"attempt_no_coerce", "attempt_coerce", "attempt_validation">> }

HollowOrder == <<"attempt_hollow", "attempt_validation">>

\* the run failed in a stage that precedes validation
FailedEarly ==
    /\ run.pc = "Failed"
    /\ run.error.src \in {"fill", "coercer"}

\* C1: the intents a run has yielded are a prefix of
\* [attempt_no_coerce, attempt_coerce?, attempt_validation] or of
\* [attempt_hollow, attempt_validation]; nothing is yielded after
\* attempt_validation; a run that returned, or that failed in no stage
\* before validation, has yielded attempt_validation as its last intent.
C1_IntentOrder ==
    /\ \E o \in CheckedOrders \cup {HollowOrder} : IsPrefix(run.intents, o)
    /\ \A i \in 1..Len(run.intents) :
           run.intents[i] = "attempt_validation" => i = Len(run.intents)
    /\ (run.pc = "Done" \/ (run.pc = "Failed" /\ ~FailedEarly)) =>
           /\ run.intents # <<>>
           /\ Last(run.intents) = "attempt_validation"
    /\ run.pc = "AtValidation" => Last(run.intents) = "attempt_validation"

C1_Witness ==
    /\ run.pc = "Done"
    /\ run.intents = <<"attempt_no_coerce", "attempt_coerce", "attempt_validation">>

\* the step that resumes the run suspended at attempt_coerce
CoerceStep == run.pc = "AtCoerce" /\ run'.pc # "AtCoerce"

Returning(cs, v) == { i \in 1..Len(cs) : CallCoercer(cs[i], v).kind = "return" }

OnlyTypeErrors(cs, v) ==
    \A i \in 1..Len(cs) : CallCoercer(cs[i], v).kind \in {"return", "TypeError"}

Min(S) == CHOOSE m \in S : \A n \in S : m <= n

\* the calls of cs[1..n], each on v
CallsOn(cs, n, v) == [k \in 1..n |-> [idx |-> k, tok |-> cs[k], inp |-> v]]

\* C2: when the scan runs over a non-empty coercer list whose members return
\* or raise TypeError on the input: the coercers are called in declared
\* order, each on the original input; the first that returns supplies the
\* value handed to validation and none after it is called; if all raise,
\* fill fails with the last coercer's error and attempt_validation is never
\* yielded.
C2_CoercerScan ==
    [][ (CoerceStep /\ coercers # <<>> /\ OnlyTypeErrors(coercers, run.input)) =>
          LET ok == Returning(coercers, run.input)
              n == Len(coercers)
          IN  IF ok # {}
              THEN /\ run'.pc = "AtValidation"
                   /\ run'.arg = CallCoercer(coercers[Min(ok)], run.input).val
                   /\ run'.ccalls = CallsOn(coercers, Min(ok), run.input)
                   /\ Last(run'.intents) = "attempt_validation"
              ELSE /\ run'.pc = "Failed"
                   /\ run'.error = Error("TypeError", "coercer", coercers[n], n)
                   /\ run'.ccalls = CallsOn(coercers, n, run.input)
                   /\ run'.intents = run.intents
                   /\ \A i \in 1..Len(run'.intents) :
                          run'.intents[i] # "attempt_validation"
      ]_vars

C2_Witness ==
    /\ run.pc = "AtValidation"
    /\ Len(run.ccalls) = 2
    /\ run.ccalls[1].tok # run.ccalls[2].tok
    /\ run.arg # run.input

TypeMismatch == Error("TypeError", "fill", "none", 0)

\* C3: a checked run whose type check failed, on a filler with no coercers,
\* is suspended at attempt_coerce or has failed there with the type-mismatch
\* error raised by fill itself (not by a coercer), with no validator called.
C3_NoCoercers ==
    (/\ run.tchecks # <<>>
     /\ ~run.tchecks[1].res
     /\ coercers = <<>>) =>
        \/ run.pc = "AtCoerce"
        \/ /\ run.pc = "Failed"
           /\ run.error = TypeMismatch
           /\ run.intents = <<"attempt_no_coerce", "attempt_coerce">>
           /\ run.ccalls = <<>>
           /\ run.vcalls = <<>>

C3_Witness ==
    /\ run.pc = "Failed"
    /\ run.error = TypeMismatch
    /\ type_checking_style = "check_strict"
    /\ coercers = <<>>
    /\ validators # <<>>

\* the value after the first k validators of vs, each fed the previous output
RECURSIVE ChainValue(_, _, _)
ChainValue(vs, k, v) ==
    IF k = 0 THEN v ELSE CallValidator(vs[k], ChainValue(vs, k - 1, v)).val

Raising(vs, v) ==
    { k \in 1..Len(vs) :
        /\ \A j \in 1..(k - 1) : CallValidator(vs[j], ChainValue(vs, j - 1, v)).kind = "return"
        /\ CallValidator(vs[k], ChainValue(vs, k - 1, v)).kind # "return" }

ChainCalls(vs, n, v) ==
    [k \in 1..n |-> [idx |-> k, tok |-> vs[k], inp |-> ChainValue(vs, k - 1, v)]]

\* the step that resumes the run suspended at attempt_validation
ValidationStep == run.pc = "AtValidation" /\ run'.pc # "AtValidation"

\* C4: resumed at validation with value v and validators [v1..vn], the
\* validators are called in declared order, each on the previous one's output,
\* and fill returns vn(...v1(v)...); if vi raises, none after vi is called and
\* fill fails with vi's error and returns nothing.
C4_ValidatorChain ==
    [][ ValidationStep =>
          LET n == Len(validators)
              bad == Raising(validators, run.arg)
          IN  IF bad = {}
              THEN /\ run'.pc = "Done"
                   /\ run'.result = ChainValue(validators, n, run.arg)
                   /\ run'.vcalls = ChainCalls(validators, n, run.arg)
              ELSE LET m == Min(bad)
                   IN  /\ run'.pc = "Failed"
                       /\ run'.result = "none"
                       /\ run'.vcalls = ChainCalls(validators, m, run.arg)
                       /\ run'.error.src = "validator"
                       /\ run'.error.tok = validators[m]
                       /\ run'.error.idx = m
                       /\ run'.error.cls =
                              CallValidator(validators[m],
                                            ChainValue(validators, m - 1, run.arg)).kind
      ]_vars

C4_Witness ==
    /\ run.pc = "Done"
    /\ Len(run.vcalls) = 2
    /\ run.vcalls[2].inp # run.vcalls[1].inp
    /\ run.result # run.vcalls[2].inp

\* fill's own failure on the unconfigured style
Unconfigured == Error("NotImplementedError", "fill", "none", 0)

\* the run was first resumed on the filler in its present, hollow, style (a run
\* resumed before the style was set has failed as unconfigured)
HollowRun ==
    /\ type_checking_style = "hollow"
    /\ run.pc \notin {"none", "Start"}
    /\ run.error # Unconfigured

\* C5 as stated: a hollow fill driven to completion returns its input unchanged.
C5_Original == (HollowRun /\ run.pc = "Done") => run.result = run.input

\* C5 (amended): a hollow fill runs no type check and no coercer and hands the
\* input unchanged to validation; when it returns, it returns the validators
\* applied in order to the input, which is the input itself when there is no
\* validator.
C5_HollowReturn ==
    HollowRun =>
        /\ run.intents[1] = "attempt_hollow"
        /\ run.tchecks = <<>>
        /\ run.ccalls = <<>>
        /\ run.pc \in {"AtHollow", "AtValidation"} => run.arg = run.input
        /\ run.vcalls # <<>> => run.vcalls[1].inp = run.input
        /\ run.pc = "Done" =>
               /\ run.result =
                      ChainValue([k \in 1..Len(run.vcalls) |-> run.vcalls[k].tok],
                                 Len(run.vcalls), run.input)
               /\ (run.vcalls = <<>> => run.result = run.input)

C5_Witness ==
    /\ HollowRun
    /\ run.pc = "Done"
    /\ run.vcalls # <<>>
    /\ run.result # run.input

\* every token of the last bind was applied: no resolver raised
AllApplied ==
    /\ bindOutcome.status # "none"
    /\ bindOutcome.error.src \notin {"get_coercer", "get_validator"}

\* C6: once every token is applied, bind raises exactly when the style is
\* default (NotImplementedError) or hollow with a non-empty coercer list
\* (ValueError); a filler whose bind returned has neither.
C6_BindPostConditions ==
    /\ AllApplied =>
          /\ bindOutcome.status = "raised" <=>
                \/ type_checking_style = "default"
                \/ type_checking_style = "hollow" /\ coercers # <<>>
          /\ type_checking_style = "default" =>
                bindOutcome.error = Error("NotImplementedError", "bind", "none", 0)
          /\ (type_checking_style = "hollow" /\ coercers # <<>>) =>
                bindOutcome.error = Error("ValueError", "bind", "none", 0)
    /\ bindOutcome.status = "ok" =>
          /\ type_checking_style # "default"
          /\ ~(type_checking_style = "hollow" /\ coercers # <<>>)

C6_Witness ==
    /\ bindOutcome.status = "raised"
    /\ bindOutcome.error.cls = "ValueError"
    /\ type_checking_style = "hollow"
    /\ coercers # <<>>

\* C7: while the style is default, bind raises (NotImplementedError, or the
\* TypeError of an unresolvable token), and a resumed fill has raised
\* NotImplementedError with no intent yielded and no type check, coercer or
\* validator called.
C7_DefaultStyle ==
    type_checking_style = "default" =>
        /\ nbinds > 0 =>
              /\ bindOutcome.status = "raised"
              /\ bindOutcome.error.cls \in {"NotImplementedError", "TypeError"}
        /\ run.pc \notin {"none", "Start"} =>
              /\ run.pc = "Failed"
              /\ run.error = Error("NotImplementedError", "fill", "none", 0)
              /\ run.intents = <<>>
              /\ run.tchecks = <<>>
              /\ run.ccalls = <<>>
              /\ run.vcalls = <<>>

C7_Witness ==
    /\ type_checking_style = "default"
    /\ bindOutcome.status = "raised"
    /\ bindOutcome.error.cls = "NotImplementedError"
    /\ coercers # <<>>
    /\ run.pc = "Failed"

StrictSubtype(t, u) == IsSubclass(t, u) /\ t # u

\* C8: after attempt_no_coerce, check_strict sends an input of exactly the
\* declared type to attempt_validation and an input of a strict subtype to
\* attempt_coerce; check sends both to attempt_validation.
C8_CheckSelection ==
    (Len(run.intents) >= 2 /\ run.intents[1] = "attempt_no_coerce") =>
        LET t == TypeOf(run.input)
        IN  /\ type_checking_style = "check_strict" =>
                  /\ t = origin => run.intents[2] = "attempt_validation"
                  /\ StrictSubtype(t, origin) => run.intents[2] = "attempt_coerce"
            /\ type_checking_style = "check" =>
                  /\ IsSubclass(t, origin) => run.intents[2] = "attempt_validation"
                  /\ ~IsSubclass(t, origin) => run.intents[2] = "attempt_coerce"

C8_Witness ==
    /\ type_checking_style = "check_strict"
    /\ StrictSubtype(TypeOf(run.input), origin)
    /\ Len(run.intents) >= 2
    /\ run.intents[2] = "attempt_coerce"

\* positions of args holding a token of the given set that is not callable
NotCallableIn(S) == { i \in 1..Len(args) : args[i] \in S /\ ~Callable(args[i]) }

\* C9 as stated (style tokens set aside): every token of args that is not
\* callable makes bind raise a TypeError naming the first such token.
C9_Original ==
    (nbinds > 0 /\ NotCallableIn(Tokens \ TypeCheckStyle) # {}) =>
        /\ bindOutcome.status = "raised"
        /\ bindOutcome.error.cls = "TypeError"
        /\ bindOutcome.error.tok = args[Min(NotCallableIn(Tokens \ TypeCheckStyle))]

\* C9 (amended): a coercion or validation token is appended only if it is
\* callable; the first one that is not makes bind raise a TypeError carrying
\* that token.  Style tokens are applied without being callable, and a token
\* of none of the three kinds is skipped without error.
C9_TokenResolution ==
    nbinds > 0 =>
        LET bad == NotCallableIn(CoercionToken \cup ValidationToken)
        IN  /\ bad # {} =>
                  /\ bindOutcome.status = "raised"
                  /\ bindOutcome.error.cls = "TypeError"
                  /\ bindOutcome.error.tok = args[Min(bad)]
                  /\ bindOutcome.error.src =
                         IF args[Min(bad)] \in CoercionToken
                         THEN "get_coercer" ELSE "get_validator"
            /\ bad = {} => bindOutcome.error.cls # "TypeError"
            /\ \A i \in 1..Len(coercers) : Callable(coercers[i])
            /\ \A i \in 1..Len(validators) : Callable(validators[i])

C9_Witness ==
    /\ bindOutcome.status = "raised"
    /\ bindOutcome.error.tok = "vBad"
    /\ \E i \in 1..Len(args) : args[i] = "doc"
    /\ type_checking_style = "check"

\* C10 as stated: a bind that raises leaves type_checking_style, coercers and
\* validators as they were before the call.
C10_AllOrNothing ==
    [][ (nbinds' = nbinds + 1 /\ bindOutcome'.status = "raised") =>
          /\ type_checking_style' = type_checking_style
          /\ coercers' = coercers
          /\ validators' = validators
      ]_vars

----------------------------------------------------------------------------
(* Properties of the stages, of abandoned and interleaved runs, and of     *)
(* repeated binds                                                          *)

\* the type check of the filler's style, applied to v
Conformant(v) == runCheck(selectCheck(type_checking_style), origin, v)

\* C11 as stated: in a checked run that reaches validation, the value handed
\* to the validation stage (and to the first validator) passes the type check
\* of the configured style.
C11_ConformantAtValidation ==
    (run.intents # <<>> /\ run.intents[1] = "attempt_no_coerce") =>
        /\ run.pc = "AtValidation" => Conformant(run.arg)
        /\ run.vcalls # <<>> => Conformant(run.vcalls[1].inp)

\* the calls r has made are calls of the filler's callables, in their order
SeesConfiguration(r) ==
    /\ Len(r.ccalls) <= Len(coercers)
    /\ \A k \in 1..Len(r.ccalls) : r.ccalls[k].tok = coercers[k]
    /\ Len(r.vcalls) <= Len(validators)
    /\ \A k \in 1..Len(r.vcalls) : r.vcalls[k].tok = validators[k]

\* C12: no step of a fill run -- creation, resumption to the next intent, to
\* the return or to a failure, or abandonment -- changes type_checking_style,
\* origin, args, coercers or validators, for either of two runs interleaved
\* on the same filler; the callables a run calls are the filler's own.
C12_FillKeepsConfiguration ==
    /\ [](SeesConfiguration(run) /\ SeesConfiguration(run2))
    /\ [][ (run' # run \/ run2' # run2) =>
             /\ type_checking_style' = type_checking_style
             /\ origin' = origin
             /\ args' = args
             /\ coercers' = coercers
             /\ validators' = validators
         ]_vars

C12_Witness ==
    /\ bindOutcome.status = "ok"
    /\ run.pc = "Closed"
    /\ run.ccalls # <<>>
    /\ run2.pc = "Done"
    /\ run2.ccalls # <<>>
    /\ run2.input # run.input

\* every call of the log q is of a different position, in increasing order
OncePerPosition(q) == \A k \in 1..Len(q) : q[k].idx = k

\* C17: a run that the driver keeps resuming reaches Done or Failed, having
\* yielded at most three intents and called each coercer and each validator
\* at most once.
C17_Terminates ==
    /\ [](/\ Len(run.intents) <= 3
          /\ OncePerPosition(run.ccalls) /\ Len(run.ccalls) <= Len(coercers)
          /\ OncePerPosition(run.vcalls) /\ Len(run.vcalls) <= Len(validators))
    /\ (run.pc = "Start") ~> (run.pc \in {"Done", "Failed"})

C17_Witness ==
    /\ run.pc = "Done"
    /\ Len(run.intents) = 3
    /\ Len(coercers) = 2
    /\ Len(run.ccalls) = 1

\* the first coercer of cs that does not raise TypeError on v
Decisive(cs, v) == { i \in 1..Len(cs) : CallCoercer(cs[i], v).kind # "TypeError" }

\* C18: when the first coercer that does not raise TypeError raises another
\* error, the scan ends there: no later coercer is called, attempt_validation
\* is not yielded and fill fails with that error.
C18_OtherErrorsEndScan ==
    [][ (/\ CoerceStep
         /\ Decisive(coercers, run.input) # {}
         /\ CallCoercer(coercers[Min(Decisive(coercers, run.input))],
                        run.input).kind # "return") =>
          LET p == Min(Decisive(coercers, run.input))
          IN  /\ run'.pc = "Failed"
              /\ run'.error = Error(CallCoercer(coercers[p], run.input).kind,
                                    "coercer", coercers[p], p)
              /\ run'.ccalls = CallsOn(coercers, p, run.input)
              /\ run'.vcalls = <<>>
              /\ run'.intents = run.intents
              /\ Last(run'.intents) = "attempt_coerce"
      ]_vars

C18_Witness ==
    /\ run.pc = "Failed"
    /\ run.error.cls = "ValueError"
    /\ run.error.src = "coercer"
    /\ run.error.idx = 1
    /\ Len(run.ccalls) = 1
    /\ Len(coercers) > 1
    /\ CallCoercer(coercers[2], run.input).kind = "return"

\* positions of args holding a style token
StylePositions == { i \in 1..Len(args) : args[i] \in TypeCheckStyle }

Max(S) == CHOOSE m \in S : \A n \in S : m >= n

\* the style the token list declares last (default when it declares none)
LastStyle == IF StylePositions = {} THEN "default" ELSE args[Max(StylePositions)]

\* C15: once the tokens are applied the style is the last style token of
\* args, however many style tokens precede it; bind raises for no
\* redeclaration, and raises the default-style error exactly when that
\* resulting style is default.
C15_LastStyleWins ==
    AllApplied =>
        /\ type_checking_style = LastStyle
        /\ bindOutcome.error.cls = "NotImplementedError" <=> LastStyle = "default"
        /\ (LastStyle # "default" /\ ~(LastStyle = "hollow" /\ coercers # <<>>)) =>
               bindOutcome.status = "ok"

C15_Witness ==
    /\ bindOutcome.status = "ok"
    /\ Cardinality(StylePositions) = 3
    /\ args[1] = "hollow"
    /\ args[2] = "check"
    /\ type_checking_style = "check_strict"

CoercionTokensOf(toks) == SelectSeq(toks, LAMBDA t : t \in CoercionToken)
ValidationTokensOf(toks) == SelectSeq(toks, LAMBDA t : t \in ValidationToken)

\* C16: after a successful first bind, coercers is the subsequence of the
\* coercion tokens of args and validators the subsequence of its validation
\* tokens, each in declaration order, wherever the style token stands.
C16_ListsFollowDeclaration ==
    (nbinds = 1 /\ bindOutcome.status = "ok") =>
        /\ coercers = CoercionTokensOf(args)
        /\ validators = ValidationTokensOf(args)

C16_Witness ==
    /\ nbinds = 1
    /\ bindOutcome.status = "ok"
    /\ args[1] \in ValidationToken
    /\ args[2] \in CoercionToken
    /\ args[3] \in TypeCheckStyle
    /\ coercers # <<>>
    /\ validators # <<>>

\* k copies of q, one after the other
RECURSIVE Repeat(_, _)
Repeat(q, k) == IF k = 0 THEN <<>> ELSE Repeat(q, k - 1) \o q

\* C19: after k successful binds the style is the last style token and
\* coercers and validators hold k consecutive copies of the coercion and of
\* the validation tokens of args; no step of bind or fill removes or reorders
\* an entry: each list only ever grows at its end.
C19_BindAppendsAgain ==
    /\ [](bindOutcome.status = "ok" =>
            /\ type_checking_style = LastStyle
            /\ coercers = Repeat(CoercionTokensOf(args), nbinds)
            /\ validators = Repeat(ValidationTokensOf(args), nbinds))
    /\ [][IsPrefix(coercers, coercers') /\ IsPrefix(validators, validators')]_vars

C19_Witness ==
    /\ nbinds = 2
    /\ bindOutcome.status = "ok"
    /\ Len(coercers) = 4
    /\ coercers[1] # coercers[2]
    /\ run.pc = "Done"

\* what a generator r has executed, by where it stands
StageWork(r) ==
    /\ r.pc \in {"none", "Start", "AtNoCoerce"} => r.tchecks = <<>>
    /\ r.pc \in {"none", "Start", "AtNoCoerce", "AtHollow", "AtCoerce"} =>
           r.ccalls = <<>>
    /\ r.pc \in {"none", "Start", "AtNoCoerce", "AtHollow", "AtCoerce", "AtValidation"} =>
           r.vcalls = <<>>
    /\ r.pc = "Closed" =>
           /\ r.vcalls = <<>>
           /\ r.result = "none"
           /\ (r.intents = <<>> \/ Last(r.intents) = "attempt_no_coerce") =>
                  r.tchecks = <<>>
           /\ (r.intents = <<>> \/ Last(r.intents) # "attempt_validation") =>
                  r.ccalls = <<>>

\* C13: the type check runs only once the run is resumed past
\* attempt_no_coerce, the coercers only once it is resumed past
\* attempt_coerce, the validators only once it is resumed past
\* attempt_validation; a run abandoned at attempt_coerce has called no coercer
\* and one abandoned at attempt_validation no validator.
C13_WorkAfterResume == StageWork(run) /\ StageWork(run2)

C13_Witness ==
    /\ run.pc = "Closed"
    /\ run.intents # <<>>
    /\ Last(run.intents) = "attempt_coerce"
    /\ coercers # <<>>
    /\ run.ccalls = <<>>
    /\ run2.input = run.input
    /\ run2.pc = "Closed"
    /\ run2.ccalls # <<>>
    /\ Last(run2.intents) = "attempt_validation"

\* C14: a coercer is called only in a checked run whose type check returned
\* false; a run whose type check returned true calls none; a hollow run calls
\* no coercer and runs no type check, whatever coercers the filler holds.
C14_CoercionOnlyAfterFailedCheck ==
    /\ run.ccalls # <<>> =>
          /\ type_checking_style \in {"check", "check_strict"}
          /\ Len(run.intents) >= 2
          /\ run.intents[1] = "attempt_no_coerce"
          /\ run.intents[2] = "attempt_coerce"
          /\ Len(run.tchecks) = 1
          /\ ~run.tchecks[1].res
    /\ (run.tchecks # <<>> /\ run.tchecks[1].res) => run.ccalls = <<>>
    /\ (run.intents # <<>> /\ run.intents[1] = "attempt_hollow") =>
          /\ run.ccalls = <<>>
          /\ run.tchecks = <<>>

C14_Witness ==
    /\ run.pc = "Done"
    /\ run.intents[1] = "attempt_hollow"
    /\ coercers # <<>>
    /\ run.ccalls = <<>>

====
